---- MODULE Spec2Model ----
(***************************************************************************)
(* ChatbotQT (src/main.py): the conversation state of ChatbotWindow, the   *)
(* cached API key, the sqlite message log and the ApiWorker threads.       *)
(*                                                                         *)
(* Text (keys, typed input, message content) is a sequence of one-         *)
(* character strings, so that str.strip() and len() are computed.          *)
(* A turn of a Python message list is the dict {"role", "content"}; the    *)
(* model adds to it the field id, the rowid of the log row written for     *)
(* the same message (0 for the system turn, which is never logged), so     *)
(* that two turns with equal text can be told apart.                       *)
(* Python lists are objects on a heap (lists), referenced by id, because   *)
(* the program shares one list between several names.                      *)
(***************************************************************************)
EXTENDS Integers, Sequences, FiniteSets, TLC

VARIABLES
    pc,                   \* position of the control thread: __init__ steps, event loop, exit
    key_file,             \* content of ~/.chatbotqt/api_key.cache, or NoFile
    api_key,              \* ChatbotWindow.api_key
    log,                  \* rows of table messages, in rowid order
    lists,                \* heap of Python list objects: list id -> sequence of turns
    message_cache,        \* ChatbotWindow.message_cache (a list id)
    conversation_history, \* ChatbotWindow.conversation_history (a list id)
    model,                \* ChatbotWindow.model
    personality,          \* ChatbotWindow.personality
    context_window,       \* ChatbotWindow.context_window
    loading_indicator,    \* ChatbotWindow.loading_indicator is set (not None)
    loading_bubbles,      \* number of "..." bubbles among the widgets of chat_layout
    chat_last,            \* the bubble most recently added to chat_layout by add_message
    worker,               \* ChatbotWindow.worker: request id of the ApiWorker it refers to
    workers,              \* the ApiWorker objects alive
    events                \* queued finished/error signals awaiting the control thread

vars == <<pc, key_file, api_key, log, lists, message_cache, conversation_history,
          model, personality, context_window, loading_indicator, loading_bubbles,
          chat_last, worker, workers, events>>

----------------------------------------------------------------------------
(* Bounds of the exploration *)

MaxInitLog == 11   \* longest message log found at startup
MaxNew == 4        \* rows written to the log in this session
MaxWorkers == 2    \* ApiWorker requests not yet handled by the control thread

(* Program constants *)

DefaultContextWindow == 10
MinKeyLen == 10

\* Python None and an absent cache file: texts no sequence of characters equals
None == <<"<None>">>
NoFile == <<"<NoFile>">>

----------------------------------------------------------------------------
(* Text helpers: Python str methods on sequences of characters *)

Whitespace == {" ", "\n", "\t"}

RECURSIVE lstrip(_)
lstrip(s) == IF s # <<>> /\ Head(s) \in Whitespace THEN lstrip(Tail(s)) ELSE s

RECURSIVE rstrip(_)
rstrip(s) ==
    IF s # <<>> /\ s[Len(s)] \in Whitespace THEN rstrip(SubSeq(s, 1, Len(s) - 1)) ELSE s

strip(s) == rstrip(lstrip(s))

\* Python truthiness of an Optional[str]
truthy(s) == s # None /\ s # <<>>

Min(a, b) == IF a <= b THEN a ELSE b

----------------------------------------------------------------------------
(* APIKeyManager *)

\* a validation that measures the key as typed
validate_api_key_unstripped(key) == truthy(key) /\ Len(key) >= MinKeyLen

validate_api_key(key) == truthy(key) /\ Len(strip(key)) >= MinKeyLen

\* the value get_cached_key returns for a cache file
get_cached_key(file) == IF file = NoFile THEN None ELSE strip(file)

\* save_key: <<returned value, cache file afterwards>>
save_key(key, file) == IF validate_api_key(key) THEN <<TRUE, key>> ELSE <<FALSE, file>>

\* keys a user may type into the key dialog: empty, 5 characters, 12 characters
ShortKey == <<"s", "k", "-", "1", "2">>
ValidKey == <<"s", "k", "-", "o", "r", "-", "1", "2", "3", "4", "5", "6">>
TypedKeys == {<<>>, ShortKey, ValidKey}

\* further texts a key dialog or a cache file may hold: blanks only, a valid key
\* between blanks (14 characters), a short key between blanks (11 characters)
BlankKey == <<" ", " ">>
PaddedKey == <<" ">> \o ValidKey \o <<"\n">>
PaddedShortKey == <<" ", " ", " ", " ", " ">> \o ShortKey \o <<" ">>
\* keys of 9 and of 10 characters
NineKey == SubSeq(ValidKey, 1, 9)
TenKey == SubSeq(ValidKey, 1, 10)
KeyCandidates == TypedKeys \cup {BlankKey, PaddedKey, PaddedShortKey, NineKey, TenKey}
\* cache files found at a launch: none, an empty one, and the texts above
KeyFiles == {NoFile, <<>>, BlankKey, ShortKey, ValidKey, PaddedKey, TenKey}

----------------------------------------------------------------------------
(* DatabaseManager: table messages(id, role, content, timestamp) *)

UserText == <<"h", "i">>
ReplyText == <<"o", "k">>

LastTs(rows) == IF rows = <<>> THEN 0 ELSE rows[Len(rows)].ts

\* the second in which the session starts: later than every row found at startup
SessionStart == MaxInitLog

\* CURRENT_TIMESTAMP at an insert of this session: each insert falls in a later
\* second than the one before
CurrentTimestamp(rows) ==
    (IF LastTs(rows) > SessionStart THEN LastTs(rows) ELSE SessionStart) + 1

\* save_message: INSERT; id is AUTOINCREMENT, timestamp CURRENT_TIMESTAMP
save_message(rows, role, content) ==
    Append(rows, [id |-> Len(rows) + 1, role |-> role, content |-> content,
                  ts |-> CurrentTimestamp(rows)])

\* rows written in this session
Written(rows) == IF LastTs(rows) > SessionStart THEN LastTs(rows) - SessionStart ELSE 0

\* r comes before q under ORDER BY timestamp DESC; rows of one second come in
\* an order SQL leaves open: tb is the order the engine happens to produce
Before(r, q, tb) ==
    \/ r.ts > q.ts
    \/ r.ts = q.ts /\ (IF tb = "desc" THEN r.id >= q.id ELSE r.id <= q.id)

RECURSIVE OrderByTimestampDesc(_, _)
OrderByTimestampDesc(rows, tb) ==
    IF rows = {} THEN <<>>
    ELSE LET first == CHOOSE r \in rows : \A q \in rows : Before(r, q, tb)
         IN  <<first>> \o OrderByTimestampDesc(rows \ {first}, tb)

Range(s) == {s[i] : i \in 1..Len(s)}

Turn(row) == [role |-> row.role, content |-> row.content, id |-> row.id]

\* get_recent_messages: SELECT role, content ... ORDER BY timestamp DESC LIMIT ?
get_recent_messages(rows, limit, tb) ==
    LET sorted == OrderByTimestampDesc(Range(rows), tb)
    IN  [i \in 1..Min(limit, Len(sorted)) |-> Turn(sorted[i])]

\* a log left by earlier sessions: m rows of alternating user and assistant
\* messages, one second apart; with tied, the last reply came within the same
\* second as its question
InitLog(m, tied) ==
    [i \in 1..m |->
        [id |-> i,
         role |-> IF i % 2 = 1 THEN "user" ELSE "assistant",
         content |-> IF i % 2 = 1 THEN UserText ELSE ReplyText,
         ts |-> IF tied /\ i = m /\ m >= 2 THEN m - 1 ELSE i]]

----------------------------------------------------------------------------
(* ChatSettings: the combo boxes of the settings dialog *)

Free == " (Free)"

\* the text of a model entry is base followed by suffix
model_items ==
    << [base |-> "openai/gpt-3.5-turbo", suffix |-> Free],
       [base |-> "deepseek/deepseek-chat-v3", suffix |-> Free],
       [base |-> "anthropic/claude-instant-1.2", suffix |-> Free],
       [base |-> "meta-llama/llama-2-70b-chat", suffix |-> Free],
       [base |-> "mistralai/mixtral-8x7b", suffix |-> Free],
       [base |-> "phind/phind-codellama-34b", suffix |-> Free],
       [base |-> "openchat/openchat", suffix |-> Free],
       [base |-> "gryphe/mythomist-7b", suffix |-> Free],
       [base |-> "nousresearch/nous-hermes-2-mixtral-8x7b", suffix |-> Free],
       [base |-> "anthropic/claude-2", suffix |-> ""],
       [base |-> "anthropic/claude-2.1", suffix |-> ""],
       [base |-> "openai/gpt-4", suffix |-> ""],
       [base |-> "openai/gpt-4-32k", suffix |-> ""] >>

personality_items == <<"Professional", "Friendly", "Technical", "Creative">>

context_items == << <<"5">>, <<"1", "0">>, <<"1", "5">>, <<"2", "0">> >>

Digits == <<"0", "1", "2", "3", "4", "5", "6", "7", "8", "9">>

\* Python str(n) of a natural number
RECURSIVE str(_)
str(n) == IF n < 10 THEN <<Digits[n + 1]>> ELSE str(n \div 10) \o <<Digits[(n % 10) + 1]>>

\* Python int(s) of a decimal text
RECURSIVE int(_)
int(s) ==
    IF s = <<>> THEN 0
    ELSE int(SubSeq(s, 1, Len(s) - 1)) * 10
         + (CHOOSE d \in 0..9 : Digits[d + 1] = s[Len(s)])

\* QComboBox.setCurrentText on a non-editable box filled by addItem: the index
\* of the entry with that text, or the index the box had (the first entry)
setCurrentText(items, text) ==
    IF \E i \in 1..Len(items) : items[i] = text
    THEN CHOOSE i \in 1..Len(items) : items[i] = text
    ELSE 1

\* the index a combo box has when the dialog closes: the one the user picked,
\* or (pick = 0, the box was not touched) the one setCurrentText left
currentIndex(items, text, pick) == IF pick = 0 THEN setCurrentText(items, text) ELSE pick

\* what the user does in the dialog: an entry picked in each box (0: untouched)
\* in the model, personality and context boxes: nothing touched, "Friendly"
\* picked, "5" picked
DialogPicks == {<<0, 0, 0>>, <<0, 2, 0>>, <<0, 0, 1>>}

----------------------------------------------------------------------------
(* ChatbotWindow: configuration, prompts, lists *)

DefaultModel == [base |-> "openai/gpt-3.5-turbo", suffix |-> ""]
DefaultPersonality == "Professional"

prompts(p) ==
    CASE p = "Professional" ->
           <<"You are a professional assistant. Provide clear, concise, and accurate responses in a formal tone.">>
      [] p = "Friendly" ->
           <<"You are a friendly and approachable assistant. Use a casual, warm tone and engage in natural conversation.">>
      [] p = "Technical" ->
           <<"You are a technical expert. Provide detailed technical explanations and use industry-standard terminology.">>
      [] p = "Creative" ->
           <<"You are a creative assistant. Think outside the box and provide innovative solutions with an imaginative flair.">>

get_personality_prompt(p) ==
    IF p \in Range(personality_items) THEN prompts(p) ELSE prompts("Professional")

SystemTurn(p) == [role |-> "system", content |-> get_personality_prompt(p), id |-> 0]

\* self.model.split(" (Free)")[0]
model_name(m) == [base |-> m.base, suffix |-> ""]

\* the id a newly created list object gets
NewList(heap) == CHOOSE i \in 1..(Cardinality(DOMAIN heap) + 1) : 
                    i \notin DOMAIN heap /\ \A j \in 1..(i - 1) : j \in DOMAIN heap

\* list objects are freed when nothing refers to them any more
Collect(heap, roots) == [i \in (DOMAIN heap) \cap roots |-> heap[i]]

Refs(cache, history, ws) == {cache, history} \cup {w.messages : w \in ws}

\* list.append(turn), then: if len(list) > context_window: list.pop(0)
append_and_trim(cache, turn, window) ==
    LET appended == Append(cache, turn)
    IN  IF Len(appended) > window THEN Tail(appended) ELSE appended

----------------------------------------------------------------------------
(* Inputs *)

\* lengths of the message log found at startup
InitLogLens == {0, 2, MaxInitLog}

\* lengths of those logs whose last reply shares the second of its question
TiedLogLens == {2}

InitLogs == {InitLog(m, FALSE) : m \in InitLogLens} \cup {InitLog(m, TRUE) : m \in TiedLogLens}

\* texts the input field may hold when Send is clicked
TypedTexts == {<<>>, <<" ", " ">>, <<" ", "h", "i", " ">>}

\* what the remote endpoint may answer; "none": no HTTP response (timeout, network)
Responses ==
    { [status |-> 200, body |-> "choices"],   \* {"choices": [{"message": {"content": ...}}]}
      [status |-> 200, body |-> "neither"],   \* a JSON object with neither "error" nor "choices"
      [status |-> 401, body |-> "error"],     \* {"error": {"code": 401, ...}}
      [status |-> 429, body |-> "error"],     \* {"error": {"code": 429, ...}}
      [status |-> 0, body |-> "none"] }

NoBubble == [text |-> <<>>, is_user |-> FALSE]

ErrorPrefix == "Error: Could not get response from API. "

\* requests whose outcome the control thread has not handled yet
Pending == Cardinality({w \in workers : w.pc # "finished"}) + Len(events)

----------------------------------------------------------------------------
(* Startup: ChatbotWindow.__init__ *)

Init ==
    \E rows \in InitLogs, file \in {NoFile, ValidKey} :
        /\ pc = "init"
        /\ key_file = file
        /\ api_key = None
        /\ log = rows
        /\ lists = <<>>
        /\ message_cache = 0
        /\ conversation_history = 0
        /\ model = DefaultModel
        /\ personality = DefaultPersonality
        /\ context_window = DefaultContextWindow
        /\ loading_indicator = FALSE
        /\ loading_bubbles = 0
        /\ chat_last = NoBubble
        /\ worker = 0
        /\ workers = {}
        /\ events = <<>>

\* self.api_key = APIKeyManager.get_cached_key(); if not self.api_key: request
InitApiKey ==
    /\ pc = "init"
    /\ api_key' = get_cached_key(key_file)
    /\ pc' = IF truthy(api_key') THEN "load" ELSE "request_key"
    /\ UNCHANGED <<key_file, log, lists, message_cache, conversation_history, model,
                   personality, context_window, loading_indicator, loading_bubbles,
                   chat_last, worker, workers, events>>

\* request_api_key, called from __init__ before chat_layout exists: a rejected
\* key reaches self.add_message, which raises AttributeError out of __init__
request_api_key(accepted, key) ==
    /\ pc = "request_key"
    /\ IF accepted /\ truthy(key)
       THEN LET saved == save_key(key, key_file)
            IN  /\ key_file' = saved[2]
                /\ api_key' = IF saved[1] THEN key ELSE api_key
                /\ pc' = IF saved[1] THEN "load" ELSE "crashed"
       ELSE /\ pc' = "exited"
            /\ UNCHANGED <<key_file, api_key>>
    /\ UNCHANGED <<log, lists, message_cache, conversation_history, model,
                   personality, context_window, loading_indicator, loading_bubbles,
                   chat_last, worker, workers, events>>

\* the rest of __init__: defaults, the recent messages (one list object under
\* two names), the system message appended to it, the bubbles, the event loop
LoadHistory(tb) ==
    /\ pc = "load"
    /\ model' = DefaultModel
    /\ context_window' = DefaultContextWindow
    /\ personality' = DefaultPersonality
    /\ LET recent_messages == get_recent_messages(log, context_window', tb)
           history == Append(recent_messages, SystemTurn(personality'))
       IN  /\ lists' = (1 :> history)
           /\ conversation_history' = 1
           /\ message_cache' = 1
           /\ chat_last' = [text |-> history[1].content,
                            is_user |-> history[1].role = "user"]
    /\ loading_indicator' = FALSE
    /\ loading_bubbles' = 0
    /\ pc' = "running"
    /\ UNCHANGED <<key_file, api_key, log, worker, workers, events>>

----------------------------------------------------------------------------
(* The event loop of the control thread *)

\* a read of the input field that is not stripped
user_message_unstripped(text) == text

\* user_message = self.input_field.toPlainText().strip()
user_message(text) == strip(text)

\* ApiWorker(self.api_key, model_name, self.message_cache): the worker keeps a
\* reference to the list, not a copy; req is the rowid of the user message
ApiWorker(req, key, name, messages) ==
    [req |-> req, api_key |-> key, model |-> name, messages |-> messages,
     pc |-> "started", payload |-> <<>>]

\* the Send button, with text in the input field (input_field.clear(), which
\* follows an accepted text, is left to the presentation)
send_message(text) ==
    /\ pc = "running"
    /\ IF ~truthy(user_message(text))
       THEN UNCHANGED <<pc, key_file, api_key, log, lists, message_cache,
                        conversation_history, model, personality, context_window,
                        loading_indicator, loading_bubbles, chat_last, worker,
                        workers, events>>
       ELSE /\ Written(log) + Pending < MaxNew
            /\ Pending < MaxWorkers
            /\ chat_last' = [text |-> user_message(text), is_user |-> TRUE]
            /\ loading_indicator' = TRUE
            /\ loading_bubbles' = loading_bubbles + 1
            /\ log' = save_message(log, "user", user_message(text))
            /\ LET turn == [role |-> "user", content |-> user_message(text),
                            id |-> Len(log')]
                   heap == [lists EXCEPT ![message_cache] =
                               append_and_trim(@, turn, context_window)]
                   started == ApiWorker(Len(log'), api_key, model_name(model),
                                        message_cache)
               IN  /\ workers' = {w \in workers : w.pc # "finished"} \cup {started}
                   /\ worker' = started.req
                   /\ lists' = Collect(heap, Refs(message_cache, conversation_history,
                                                  workers'))
            /\ UNCHANGED <<pc, key_file, api_key, message_cache, conversation_history,
                           model, personality, context_window, events>>

\* handle_api_response: response_json["choices"][0]["message"]["content"]
\* raises KeyError when the answer has no choices; PyQt then either aborts the
\* process or prints the traceback and returns to the event loop
handle_api_response(response_json, abort) ==
    /\ loading_bubbles' = IF loading_indicator THEN loading_bubbles - 1 ELSE loading_bubbles
    /\ loading_indicator' = FALSE
    /\ IF response_json.kind = "choices"
       THEN /\ log' = save_message(log, "assistant", response_json.content)
            /\ lists' = [lists EXCEPT ![message_cache] =
                            append_and_trim(@,
                                [role |-> "assistant", content |-> response_json.content,
                                 id |-> Len(log')],
                                context_window)]
            /\ chat_last' = [text |-> response_json.content, is_user |-> FALSE]
            /\ UNCHANGED pc
       ELSE /\ pc' = IF abort THEN "aborted" ELSE pc
            /\ UNCHANGED <<log, lists, chat_last>>
    /\ UNCHANGED <<key_file, api_key>>

\* handle_api_error
handle_api_error(error_message) ==
    /\ loading_bubbles' = IF loading_indicator THEN loading_bubbles - 1 ELSE loading_bubbles
    /\ loading_indicator' = FALSE
    /\ chat_last' = [text |-> <<ErrorPrefix>> \o error_message, is_user |-> FALSE]
    /\ UNCHANGED <<pc, log, lists, key_file, api_key>>

\* the event loop delivers the oldest queued signal to its slot
HandleEvent ==
    /\ pc = "running"
    /\ events # <<>>
    /\ events' = Tail(events)
    /\ IF Head(events).signal = "finished"
       THEN \E abort \in BOOLEAN : handle_api_response(Head(events).arg, abort)
       ELSE handle_api_error(Head(events).arg)
    /\ UNCHANGED <<message_cache, conversation_history, model, personality,
                   context_window, worker, workers>>

\* show_settings: the dialog with its boxes preset from the configuration, the
\* user's picks, Save or Cancel.  (Slots that run inside dialog.exec_() read and
\* write nothing the dialog reads, so the handler is taken as one step.)
show_settings(accepted, model_pick, personality_pick, context_pick) ==
    /\ pc = "running"
    /\ LET new_model == model_items[currentIndex(model_items, model, model_pick)]
           new_personality ==
               personality_items[currentIndex(personality_items, personality,
                                              personality_pick)]
           new_context ==
               int(context_items[currentIndex(context_items, str(context_window),
                                              context_pick)])
       IN  IF accepted /\ (\/ new_model # model
                           \/ new_personality # personality
                           \/ new_context # context_window)
           THEN /\ model' = new_model
                /\ personality' = new_personality
                /\ context_window' = new_context
                /\ LET history == NewList(lists)
                       heap == lists @@ (history :> <<SystemTurn(new_personality)>>)
                       cache == NewList(heap)
                   IN  /\ conversation_history' = history
                       /\ message_cache' = cache
                       /\ lists' = Collect(heap @@ (cache :> <<>>),
                                           Refs(cache, history, workers))
                /\ chat_last' = [text |-> <<"Settings updated. Starting new conversation.">>,
                                 is_user |-> FALSE]
           ELSE UNCHANGED <<model, personality, context_window, conversation_history,
                            message_cache, lists, chat_last>>
    /\ UNCHANGED <<pc, key_file, api_key, log, loading_indicator, loading_bubbles,
                   worker, workers, events>>

----------------------------------------------------------------------------
(* ApiWorker.run, on its own thread *)

\* requests.post(..., json=data): the list self.messages refers to is read now
WorkerPost(w) ==
    /\ pc = "running"
    /\ w.pc = "started"
    /\ workers' = (workers \ {w}) \cup
                  {[w EXCEPT !.pc = "posted", !.payload = lists[w.messages]]}
    /\ UNCHANGED <<pc, key_file, api_key, log, lists, message_cache,
                   conversation_history, model, personality, context_window,
                   loading_indicator, loading_bubbles, chat_last, worker, events>>

\* the signal run() emits for an answer: error(str) or finished(dict)
emitted(resp) ==
    CASE resp.body = "none" ->
           [signal |-> "error", arg |-> <<"Request Error: ", "timed out">>]
      [] resp.body = "error" ->
           [signal |-> "error", arg |-> <<"API Error: ", str(resp.status)>>]
      [] resp.body = "choices" ->
           [signal |-> "finished", arg |-> [kind |-> "choices", content |-> ReplyText]]
      [] resp.body = "neither" ->
           [signal |-> "finished", arg |-> [kind |-> "neither"]]

\* a run() that, besides emitting, writes the reply to the log itself
WorkerEmit_writing(w, resp) ==
    /\ pc = "running"
    /\ w.pc = "posted"
    /\ events' = Append(events, emitted(resp))
    /\ workers' = IF worker = w.req
                  THEN (workers \ {w}) \cup {[w EXCEPT !.pc = "finished", !.payload = <<>>]}
                  ELSE workers \ {w}
    /\ log' = IF resp.body = "choices" THEN save_message(log, "assistant", ReplyText) ELSE log
    /\ lists' = Collect(lists, Refs(message_cache, conversation_history, workers'))
    /\ UNCHANGED <<pc, key_file, api_key, message_cache, conversation_history,
                   model, personality, context_window, loading_indicator,
                   loading_bubbles, chat_last, worker>>

\* the answer arrives (or the request fails); run() emits and returns, and
\* its local data is gone
WorkerEmit(w, resp) ==
    /\ pc = "running"
    /\ w.pc = "posted"
    /\ events' = Append(events, emitted(resp))
    /\ workers' = IF worker = w.req
                  THEN (workers \ {w}) \cup {[w EXCEPT !.pc = "finished", !.payload = <<>>]}
                  ELSE workers \ {w}
    /\ lists' = Collect(lists, Refs(message_cache, conversation_history, workers'))
    /\ UNCHANGED <<pc, key_file, api_key, log, message_cache, conversation_history,
                   model, personality, context_window, loading_indicator,
                   loading_bubbles, chat_last, worker>>

----------------------------------------------------------------------------

Next ==
    \/ InitApiKey
    \/ \E accepted \in BOOLEAN, key \in TypedKeys : request_api_key(accepted, key)
    \/ \E tb \in {"asc", "desc"} : LoadHistory(tb)
    \/ \E text \in TypedTexts : send_message(text)
    \/ HandleEvent
    \/ \E accepted \in BOOLEAN, pick \in DialogPicks :
          show_settings(accepted, pick[1], pick[2], pick[3])
    \/ \E w \in workers : WorkerPost(w)
    \/ \E w \in workers, resp \in Responses : WorkerEmit(w, resp)

Spec == Init /\ [][Next]_vars

----------------------------------------------------------------------------
(* The credential cache across launches: startup up to the event loop, with  *)
(* any text in the key dialog and any cache file found on disk               *)

InitKeys ==
    \E rows \in InitLogs, file \in KeyFiles :
        /\ pc = "init"
        /\ key_file = file
        /\ api_key = None
        /\ log = rows
        /\ lists = <<>>
        /\ message_cache = 0
        /\ conversation_history = 0
        /\ model = DefaultModel
        /\ personality = DefaultPersonality
        /\ context_window = DefaultContextWindow
        /\ loading_indicator = FALSE
        /\ loading_bubbles = 0
        /\ chat_last = NoBubble
        /\ worker = 0
        /\ workers = {}
        /\ events = <<>>

\* the process has ended (sys.exit, the exception out of __init__, the window
\* closed) and the program is launched again: a new QApplication and a new
\* ChatbotWindow over the same cache file and database
Relaunch ==
    /\ pc \in {"exited", "crashed", "running"}
    /\ pc' = "init"
    /\ api_key' = None
    /\ lists' = <<>>
    /\ message_cache' = 0
    /\ conversation_history' = 0
    /\ model' = DefaultModel
    /\ personality' = DefaultPersonality
    /\ context_window' = DefaultContextWindow
    /\ loading_indicator' = FALSE
    /\ loading_bubbles' = 0
    /\ chat_last' = NoBubble
    /\ worker' = 0
    /\ workers' = {}
    /\ events' = <<>>
    /\ UNCHANGED <<key_file, log>>

NextKeys ==
    \/ InitApiKey
    \/ \E accepted \in BOOLEAN, key \in KeyCandidates : request_api_key(accepted, key)
    \/ \E tb \in {"asc", "desc"} : LoadHistory(tb)
    \/ Relaunch

KeySpec == InitKeys /\ [][NextKeys]_vars

----------------------------------------------------------------------------
(* Vocabulary of the properties *)

\* the working set: the list message_cache refers to
Cache == lists[message_cache]

NonSystem(turns) == SelectSeq(turns, LAMBDA t : t.role # "system")

\* the last k rows of the log as turns, oldest first
LastTurns(rows, k) ==
    LET n == Len(rows)
        c == Min(k, n)
    IN  [i \in 1..c |-> Turn(rows[n - c + i])]

\* workers whose remote call has not resolved
InFlight == {w \in workers : w.pc \in {"started", "posted"}}

IsBlank(text) == \A i \in 1..Len(text) : text[i] \in Whitespace

\* the log is a run of completed cycles: user, assistant, user, assistant, ...
CompletedCycles(rows) ==
    /\ Len(rows) % 2 = 0
    /\ \A i \in 1..Len(rows) : rows[i].role = IF i % 2 = 1 THEN "user" ELSE "assistant"

\* one system turn, first, then at most k user/assistant turns
WellFormed(turns, k) ==
    /\ turns # <<>>
    /\ turns[1].role = "system"
    /\ \A i \in 2..Len(turns) : turns[i].role # "system"
    /\ Len(turns) <= k + 1

\* the control thread takes the oldest queued signal
Handles(e) == pc = "running" /\ events # <<>> /\ Head(events) = e /\ events' = Tail(events)

AuthFailure == emitted([status |-> 401, body |-> "error"])

OtherFailures ==
    {emitted(r) : r \in {[status |-> 0, body |-> "none"], [status |-> 429, body |-> "error"],
                         [status |-> 200, body |-> "neither"]}}

IsErrorBubble(b) == b.text # <<>> /\ b.text[1] = ErrorPrefix /\ ~b.is_user

\* a worker thread takes a step of run(): the record of a worker in flight changes
WorkerStepped == \E w \in InFlight : w \notin workers'

\* every list object that is still alive holds what it held
ListsKept == \A i \in DOMAIN lists' : i \in DOMAIN lists /\ lists'[i] = lists[i]

\* the key dialog is accepted with a text in it: APIKeyManager.save_key(key) runs
SavesKey(key) == truthy(key) /\ request_api_key(TRUE, key)

----------------------------------------------------------------------------
(* Properties *)

\* C1: after any number of successful submit/response cycles from any startup
\* log, the non-system part of the working set has at most context_window
\* turns and is the most recently added turns, oldest first
C1_WindowIsMostRecent ==
    (/\ pc = "running"
     /\ model = DefaultModel
     /\ Pending = 0
     /\ Written(log) >= 2
     /\ CompletedCycles(log))
    => /\ Len(NonSystem(Cache)) <= context_window
       /\ NonSystem(Cache) = LastTurns(log, context_window)

\* C2: the working set, and every list a worker has posted, is one system turn
\* (of the current personality) followed by at most context_window other turns
C2_SystemTurnFirst ==
    pc = "running"
    => /\ WellFormed(Cache, context_window)
       /\ Cache[1] = SystemTurn(personality)
       /\ \A w \in workers : w.pc = "posted" => WellFormed(w.payload, context_window)

\* C3: at most one remote call is outstanding at any time
C3_OneOutstandingCall == Cardinality(InFlight) <= 1

\* C4: a submit of blank text changes nothing: working set, log, lifecycle
\* state, outstanding requests, and no call is dispatched
C4_BlankSubmitIsNoOp ==
    [][\A text \in TypedTexts :
          (IsBlank(text) /\ send_message(text)) => UNCHANGED vars]_vars

\* C4 witness: a session with a working set, a log and a call in flight, in
\* which Send is clicked on blank text
C4_Witness ==
    /\ pc = "running"
    /\ InFlight # {}
    /\ loading_indicator
    /\ Len(Cache) > 1
    /\ ENABLED send_message(<<" ", " ">>)

\* C5: when the remote call reports HTTP 401 the cached credential is cleared
\* and the session awaits a new credential (from which the retry follows)
C5_AuthFailureAwaitsCredential ==
    [][Handles(AuthFailure)
       => (api_key' = None /\ key_file' = NoFile /\ pc' = "request_key")]_vars

\* C6: a failure other than authentication (no answer, an error payload, an
\* answer with neither error nor choices) shows an error turn, leaves the
\* working set and the log as they are, and the session stays usable
C6_FailureShowsErrorTurn ==
    [][\A e \in OtherFailures :
          Handles(e) => /\ IsErrorBubble(chat_last')
                        /\ lists' = lists
                        /\ log' = log
                        /\ ~loading_indicator'
                        /\ pc' = "running"]_vars

\* C7: saving the settings dialog with nothing changed resets nothing
C7_UnchangedSettingsNoReset ==
    [][show_settings(TRUE, 0, 0, 0)
       => UNCHANGED <<lists, message_cache, conversation_history, model,
                      personality, context_window>>]_vars

\* C8: a reconfiguration with a changed field leaves a working set of exactly
\* the system turn of the new personality, and leaves the log alone
C8_ResetKeepsSystemTurn ==
    [][(pc = "running"
        /\ <<model, personality, context_window>>' # <<model, personality, context_window>>)
       => (lists'[message_cache'] = <<SystemTurn(personality')>> /\ log' = log)]_vars

\* C9: at startup the non-system part of the working set is the last
\* min(m, k) log entries in their original order
C9_StartupSeedsLastEntries ==
    [][(pc = "load" /\ pc' = "running")
       => NonSystem(lists'[message_cache']) = LastTurns(log, context_window')]_vars

\* C10: what recent(n) returns for n the size of the log holds the messages
\* of this session in the order they were exchanged (question before reply,
\* earlier pairs before later ones)
C10_RecentKeepsOrder ==
    \A tb \in {"asc", "desc"} :
        LET recent == get_recent_messages(log, Len(log), tb)
        IN  \A i, j \in 1..Len(recent) :
                (i < j /\ recent[i].id > Len(log) - Written(log)
                       /\ recent[j].id > Len(log) - Written(log))
                => recent[i].id < recent[j].id

C12_AwaitsValidCredential ==
    [][/\ pc = "init"
          => pc' = IF validate_api_key(get_cached_key(key_file))
                   THEN "load" ELSE "request_key"
       /\ \A key \in KeyCandidates :
             SavesKey(key)
             => pc' = IF validate_api_key(key) THEN "load" ELSE "request_key"
       /\ request_api_key(FALSE, <<>>) => pc' = "exited"
       /\ pc' \in {"load", "running"} => validate_api_key(api_key')]_vars

\* C13: while a submitted request is unresolved or its outcome not yet handled
\* the loading indicator is displayed, and once every outcome has been handled
\* no loading indicator is left on display
C13_IndicatorWhilePending ==
    pc = "running" => (loading_bubbles > 0 <=> Pending > 0)

\* C14: a step of a worker thread writes neither the working set nor the log,
\* and a reply is written to them only in the step of the control thread that
\* takes the worker's finished signal from the queue
C14_WritesOnControlThread ==
    [][/\ WorkerStepped
          => (log' = log /\ ListsKept /\ message_cache' = message_cache)
       /\ (log' # log /\ log'[Len(log')].role = "assistant")
          => /\ events # <<>>
             /\ Head(events).signal = "finished"
             /\ events' = Tail(events)
             /\ ~WorkerStepped]_vars

\* C14 witness: a worker has run to its end, the control thread has handled
\* its reply and written it to the log and the working set
C14_Witness ==
    /\ pc = "running"
    /\ events = <<>>
    /\ \E w \in workers : w.pc = "finished"
    /\ Written(log) >= 2
    /\ log[Len(log)].role = "assistant"
    /\ Cache[Len(Cache)].id = Len(log)

\* C15: the list a dispatched worker is to transmit stays as it was at the
\* dispatch for as long as the worker has not sent it
C15_DispatchedListFixed ==
    [][\A w \in workers :
          (w.pc = "started" /\ w \in workers')
          => lists'[w.messages] = lists[w.messages]]_vars

\* C16: a reply to a request of the conversation before a reset is not added
\* to the fresh working set.  (The working set is empty only from a reset to
\* the next accepted submit, so a reply handled then answers an older request.)
C16_StaleReplyStaysOut ==
    [][(/\ pc = "running"
        /\ Cache = <<>>
        /\ events # <<>>
        /\ Head(events).signal = "finished"
        /\ events' = Tail(events))
       => lists'[message_cache'] = <<>>]_vars

====
